---- MODULE Spec2Model ----
(***************************************************************************)
(* Model of the selection-and-assignment optimizer of optimize_layout.py:  *)
(* compute_dp_for_max_units / prune_states (selection DP with dominance    *)
(* pruning), optimize_mixed_racks (rack-mix search) and                    *)
(* assign_miners_to_racks (greedy placement), driven as main() drives them.*)
(*                                                                         *)
(* Numbers.  Powers are integers here (the code holds them as floats);     *)
(* final_power is held in units of 1/10000, i.e. the model's final_power   *)
(* is  raw * (10000 + miner_bonus + avg_rack_percent), which is the code's *)
(* raw * (1.0 + (mb + avg) / 10000.0) multiplied by 10000.                 *)
(*                                                                         *)
(* Python dicts iterate in insertion order, so the DP table is a sequence  *)
(* of (width, states) entries in insertion order.  A selection dict only   *)
(* ever receives its keys in increasing group index (one group is          *)
(* processed after the other), so it is a function from group indices      *)
(* (0-based, as enumerate() gives them) to counts, iterated in increasing  *)
(* key order.  Rack display names do not influence any number and are      *)
(* left out.                                                               *)
(***************************************************************************)
EXTENDS Integers, Sequences, FiniteSets, TLC

\* ------------------------------------------------------------------ bounds
MaxGroups == 2
MaxCount == 3
MaxRacks == 2
MaxRackOptions == 1
MaxTopN == 2
MaxMiners == 4
MaxPlaceGroups == 3
MaxPlaceCount == 4

\* ------------------------------------------------------- program constants
FloorSlots == 2
PercentScale == 10000
Floors3 == 3
Floors4 == 4

\* ------------------------------------------------------------ input values
\* Item kinds of the item feed: (name, level, power, width, bonus_percent).
MinerTypes ==
  { [name |-> "A", level |-> 1, power |-> 100, width |-> 1, bonus_percent |-> 500],
    [name |-> "B", level |-> 1, power |-> 50,  width |-> 2, bonus_percent |-> 0],
    [name |-> "C", level |-> 1, power |-> 150, width |-> 1, bonus_percent |-> 0],
    [name |-> "D", level |-> 1, power |-> 120, width |-> 3, bonus_percent |-> 0],
    [name |-> "E", level |-> 1, power |-> 100, width |-> 1, bonus_percent |-> -50] }

\* Items that share the identity (name, level) and the bonus of kind A but not its power.
SharedIdentityTypes ==
  { [name |-> "A", level |-> 1, power |-> 110, width |-> 1, bonus_percent |-> 500] }

\* Records the input contract forbids: a negative power, a negative width.
MalformedTypes ==
  { [name |-> "N", level |-> 1, power |-> -5, width |-> 1, bonus_percent |-> 0],
    [name |-> "W", level |-> 1, power |-> 100, width |-> -1, bonus_percent |-> 0] }

\* Items of width 1 and 2 only, a wide item heavier than a narrow one among them.
PlacementTypes ==
  { [name |-> "P", level |-> 1, power |-> 150, width |-> 1, bonus_percent |-> 0],
    [name |-> "Q", level |-> 1, power |-> 120, width |-> 2, bonus_percent |-> 0],
    [name |-> "S", level |-> 1, power |-> 100, width |-> 1, bonus_percent |-> 500],
    [name |-> "T", level |-> 1, power |-> 100, width |-> 2, bonus_percent |-> 0] }

RackPercentValues == {5, 300}
FallbackValues == {0, 300}

Min(a, b) == IF a <= b THEN a ELSE b

\* ---------------------------------------------------------------- grouping
\* The groups group_miners can return: one group per distinct key, count >= 1.
GroupKey(g) == <<g.name, g.level, g.power, g.width, g.bonus_percent>>

GroupRecs ==
  { [name |-> t.name, level |-> t.level, power |-> t.power, width |-> t.width,
     bonus_percent |-> t.bonus_percent, count |-> c] : t \in MinerTypes, c \in 1..MaxCount }

GroupLists ==
  UNION { { s \in [1..n -> GroupRecs] :
              \A i, j \in 1..n : i # j => GroupKey(s[i]) # GroupKey(s[j]) } : n \in 0..MaxGroups }

PlacementGroupLists ==
  UNION { { s \in [1..n -> { [name |-> t.name, level |-> t.level, power |-> t.power,
                               width |-> t.width, bonus_percent |-> t.bonus_percent,
                               count |-> c] : t \in PlacementTypes, c \in 1..MaxPlaceCount }] :
              \A i, j \in 1..n : i # j => GroupKey(s[i]) # GroupKey(s[j]) } :
          n \in 0..MaxPlaceGroups }

\* The record collect_miners hands on for one item of kind g.
MinerOf(g) == [name |-> g.name, level |-> g.level, power |-> g.power,
               width |-> g.width, bonus_percent |-> g.bonus_percent]

\* An item feed holding count copies of each group of gl, kind after kind.
RECURSIVE FeedOf(_)
FeedOf(gl) ==
  IF Len(gl) = 0 THEN << >>
  ELSE [i \in 1..gl[1].count |-> MinerOf(gl[1])] \o FeedOf(Tail(gl))

GroupCountStuck(count) == 1
\* groups[key] += 1
GroupCountUp(count) == count + 1

\* for m in miners: groups.setdefault(key, 0); groups[key] += 1
\* (the dict keeps its keys in first-seen order)
RECURSIVE GroupScan(_, _, _)
GroupScan(ms, i, acc) ==
  IF i > Len(ms) THEN acc
  ELSE LET hit == { j \in 1..Len(acc) : GroupKey(acc[j]) = GroupKey(ms[i]) }
       IN GroupScan(ms, i + 1,
            IF hit = {}
            THEN Append(acc, [name |-> ms[i].name, level |-> ms[i].level,
                              power |-> ms[i].power, width |-> ms[i].width,
                              bonus_percent |-> ms[i].bonus_percent,
                              count |-> GroupCountUp(0)])
            ELSE [j \in 1..Len(acc) |->
                    IF j \in hit THEN [acc[j] EXCEPT !.count = GroupCountUp(@)] ELSE acc[j]])

group_miners(ms) == GroupScan(ms, 1, << >>)

\* The lists collect_rack_percents can return for one height: sorted descending.
RackPercentLists ==
  UNION { { s \in [1..n -> RackPercentValues] :
              \A i \in 1..n, j \in 1..n : i < j => s[i] >= s[j] } : n \in 0..MaxRackOptions }

\* -------------------------------------------------------------- selections
EmptySel == [g \in {} |-> 0]

\* new_sel = dict(sel); new_sel[gi] = new_sel.get(gi, 0) + k
SelAdd(sel, gi, k) ==
  [g \in (DOMAIN sel) \cup {gi} |->
     IF g = gi THEN (IF gi \in DOMAIN sel THEN sel[gi] + k ELSE k) ELSE sel[g]]

\* -------------------------------------------------------------- prune_states
\* Key order of sorted(states, key=lambda x: (x[0], x[1]), reverse=True).
KeyGreater(s, t) == s.raw > t.raw \/ (s.raw = t.raw /\ s.bonus > t.bonus)

\* Stable insertion of s into a descending list: after every element whose
\* key is greater than or equal to the key of s.
RECURSIVE InsertDesc(_, _, _)
InsertDesc(sorted, s, i) ==
  IF i > Len(sorted) THEN Append(sorted, s)
  ELSE IF KeyGreater(s, sorted[i])
       THEN SubSeq(sorted, 1, i - 1) \o <<s>> \o SubSeq(sorted, i, Len(sorted))
       ELSE InsertDesc(sorted, s, i + 1)

RECURSIVE SortStatesDesc(_, _, _)
SortStatesDesc(states, i, acc) ==
  IF i > Len(states) THEN acc
  ELSE SortStatesDesc(states, i + 1, InsertDesc(acc, states[i], 1))

\* The sentinel max_bonus starts from.
PruneSentinel == -1

KeepsLoose(bonus, max_bonus) == bonus >= max_bonus
\* if bonus > max_bonus: the state is appended and max_bonus raised.
Keeps(bonus, max_bonus) == bonus > max_bonus

RECURSIVE PruneScan(_, _, _, _)
PruneScan(states, i, max_bonus, pruned) ==
  IF i > Len(states) THEN pruned
  ELSE IF Keeps(states[i].bonus, max_bonus)
       THEN PruneScan(states, i + 1, states[i].bonus, Append(pruned, states[i]))
       ELSE PruneScan(states, i + 1, max_bonus, pruned)

prune_states(states) ==
  IF Len(states) = 0 THEN << >>
  ELSE PruneScan(SortStatesDesc(states, 1, << >>), 1, PruneSentinel, << >>)

\* ------------------------------------------------- compute_dp_for_max_units
\* new_dp.setdefault(new_w, []).append(state)
SetDefaultAppend(new_dp, new_w, state) ==
  IF \E i \in 1..Len(new_dp) : new_dp[i].w = new_w
  THEN LET at == CHOOSE i \in 1..Len(new_dp) : new_dp[i].w = new_w
       IN [new_dp EXCEPT ![at].st = Append(@, state)]
  ELSE Append(new_dp, [w |-> new_w, st |-> <<state>>])

AddBonusPerCopy(b, k) == k * b
\* add_bonus = b if k >= 1 else 0
AddBonus(b, k) == IF k >= 1 THEN b ELSE 0

RECURSIVE ExtendStatesKeepsZero(_, _, _, _, _, _, _, _)
ExtendStatesKeepsZero(new_dp, states, i, new_w, add_power, add_bonus, gi, k) ==
  IF i > Len(states) THEN new_dp
  ELSE LET s == states[i]
           ns == [raw |-> s.raw + add_power, bonus |-> s.bonus + add_bonus,
                  sel |-> SelAdd(s.sel, gi, k)]
       IN ExtendStatesKeepsZero(SetDefaultAppend(new_dp, new_w, ns), states, i + 1,
                                new_w, add_power, add_bonus, gi, k)

\* for (raw, mb, sel) in states: ...
RECURSIVE ExtendStates(_, _, _, _, _, _, _, _)
ExtendStates(new_dp, states, i, new_w, add_power, add_bonus, gi, k) ==
  IF i > Len(states) THEN new_dp
  ELSE LET s == states[i]
           new_sel == IF k # 0 THEN SelAdd(s.sel, gi, k) ELSE s.sel
           ns == [raw |-> s.raw + add_power, bonus |-> s.bonus + add_bonus, sel |-> new_sel]
           appended == SetDefaultAppend(new_dp, new_w, ns)
       IN \* the state is appended before the next state is read
          IF Len(appended) > 0
          THEN ExtendStates(appended, states, i + 1, new_w, add_power, add_bonus, gi, k)
          ELSE appended

RECURSIVE ExtendCopiesBelow(_, _, _, _, _, _)
ExtendCopiesBelow(new_dp, entry, k, g, gi, max_units) ==
  IF k > g.count THEN new_dp
  ELSE LET new_w == entry.w + k * g.width
       IN IF new_w >= max_units /\ new_w > 0 THEN new_dp
          ELSE ExtendCopiesBelow(
                 ExtendStates(new_dp, entry.st, 1, new_w, k * g.power,
                              AddBonus(g.bonus_percent, k), gi, k),
                 entry, k + 1, g, gi, max_units)

\* for k in range(0, n + 1): ... if new_w > max_units: break
RECURSIVE ExtendCopies(_, _, _, _, _, _)
ExtendCopies(new_dp, entry, k, g, gi, max_units) ==
  IF k > g.count THEN new_dp
  ELSE LET new_w == entry.w + k * g.width
       IN IF new_w > max_units THEN new_dp
          ELSE LET extended == ExtendStates(new_dp, entry.st, 1, new_w, k * g.power,
                                            AddBonus(g.bonus_percent, k), gi, k)
               IN \* the states of this k are appended before the next k is tried
                  IF Len(extended) >= 0
                  THEN ExtendCopies(extended, entry, k + 1, g, gi, max_units)
                  ELSE extended

\* for used_w, states in dp.items(): ...
RECURSIVE ExtendEntries(_, _, _, _, _, _)
ExtendEntries(new_dp, dp_in, i, g, gi, max_units) ==
  IF i > Len(dp_in) THEN new_dp
  ELSE LET extended == ExtendCopies(new_dp, dp_in[i], 0, g, gi, max_units)
       IN \* this entry is extended before the next entry is read
          IF Len(extended) >= 0
          THEN ExtendEntries(extended, dp_in, i + 1, g, gi, max_units)
          ELSE extended

\* dp = {}; for w, st in new_dp.items(): dp[w] = prune_states(st)
RECURSIVE PruneEntries(_, _, _)
PruneEntries(new_dp, i, pruned_dp) ==
  IF i > Len(new_dp) THEN pruned_dp
  ELSE PruneEntries(new_dp, i + 1,
                    Append(pruned_dp, [w |-> new_dp[i].w, st |-> prune_states(new_dp[i].st)]))

\* One iteration of "for gi, g in enumerate(groups)", pruning included.
DPGroupStep(dp_in, g, gi, max_units) ==
  PruneEntries(ExtendEntries(<< >>, dp_in, 1, g, gi, max_units), 1, << >>)

\* dp = {0: [(0.0, 0, {})]}
DPInit == << [w |-> 0, st |-> << [raw |-> 0, bonus |-> 0, sel |-> EmptySel] >>] >>

RECURSIVE DPFrom(_, _, _, _)
DPFrom(dp_in, grps, gi, max_units) ==
  IF gi >= Len(grps) THEN dp_in
  ELSE DPFrom(DPGroupStep(dp_in, grps[gi + 1], gi, max_units), grps, gi + 1, max_units)

compute_dp_for_max_units(grps, max_units) == DPFrom(DPInit, grps, 0, max_units)

MaxUnitsOneMore(cap_racks) == (cap_racks + 1) * Floors4 * FloorSlots
\* max_units = capacity_racks * 4 * 2
MaxUnits(cap_racks) == cap_racks * Floors4 * FloorSlots

\* ------------------------------------------------------ optimize_mixed_racks
RECURSIVE SumSeq(_)
SumSeq(s) == IF Len(s) = 0 THEN 0 ELSE s[1] + SumSeq(Tail(s))

RoundDiv(x, y) == (2 * x + y) \div (2 * y)
\* int(x / y) for y > 0: the quotient truncated toward zero.
TruncDiv(x, y) == IF x >= 0 THEN x \div y ELSE -((-x) \div y)

\* cap_units = r3 * 3 * 2 + r4 * 4 * 2
CapUnits(n3, n4) == n3 * Floors3 * FloorSlots + n4 * Floors4 * FloorSlots

TopUnpadded(list, r, fallback) == SubSeq(list, 1, Min(r, Len(list)))
\* top = list[:r]; if len(top) < r and r > 0: top = top + [fallback] * (r - len(top))
TopPadded(list, r, fallback) ==
  LET top == SubSeq(list, 1, Min(r, Len(list)))
  IN IF Len(top) < r /\ r > 0
     THEN top \o [i \in 1..(r - Len(top)) |-> fallback]
     ELSE top

AllPerc(rp, n3, n4, fb3, fb4) == TopPadded(rp[3], n3, fb3) \o TopPadded(rp[4], n4, fb4)

\* avg_rack_percent = int(sum(all_perc) / len(all_perc)) if all_perc else 0
AvgRackPercent(rp, n3, n4, fb3, fb4) ==
  LET all_perc == AllPerc(rp, n3, n4, fb3, fb4)
  IN IF Len(all_perc) > 0 THEN TruncDiv(SumSeq(all_perc), Len(all_perc)) ELSE 0

FinalWithoutRack(raw, mb, avg) == raw * (PercentScale + mb)
\* final = raw * (1.0 + (mb + avg_rack_percent) / 10000.0), in units of 1/10000
Final(raw, mb, avg) == raw * (PercentScale + mb + avg)

NoBest == [found |-> FALSE, final |-> 0, used_units |-> 0, raw |-> 0,
           miner_bonus |-> 0, sel |-> EmptySel]

SkipsNothing(w, cap_units) == FALSE
\* if w > cap_units: continue
Skips(w, cap_units) == w > cap_units

\* for raw, mb, sel in st: ... if best is None or final > best: ...
RECURSIVE ScanStates(_, _, _, _, _)
ScanStates(best, w, st, j, avg) ==
  IF j > Len(st) THEN best
  ELSE LET final == Final(st[j].raw, st[j].bonus, avg)
           nb == IF ~best.found \/ final > best.final
                 THEN [found |-> TRUE, final |-> final, used_units |-> w,
                       raw |-> st[j].raw, miner_bonus |-> st[j].bonus, sel |-> st[j].sel]
                 ELSE best
       IN ScanStates(nb, w, st, j + 1, avg)

\* for w, st in dp_max.items(): ...
RECURSIVE ScanEntries(_, _, _, _, _)
ScanEntries(best, dp_max, i, cap_units, avg) ==
  IF i > Len(dp_max) THEN best
  ELSE IF Skips(dp_max[i].w, cap_units)
       THEN ScanEntries(best, dp_max, i + 1, cap_units, avg)
       ELSE ScanEntries(ScanStates(best, dp_max[i].w, dp_max[i].st, 1, avg),
                        dp_max, i + 1, cap_units, avg)

\* The body of "for r3 in range(0, capacity_racks + 1)": the candidates it appends.
Trial(dp_max, cap_racks, n3, rp, fb3, fb4) ==
  LET n4 == cap_racks - n3
      total_racks == n3 + n4
      cap_units == CapUnits(n3, n4)
      avg == AvgRackPercent(rp, n3, n4, fb3, fb4)
      best == ScanEntries(NoBest, dp_max, 1, cap_units, avg)
  IN IF total_racks = 0 THEN << >>
     ELSE IF best.found
          THEN << [r3 |-> n3, r4 |-> n4, total_racks |-> total_racks,
                   final_power |-> best.final, raw_power |-> best.raw,
                   miner_bonus_percent |-> best.miner_bonus,
                   used_units |-> best.used_units, avg_rack_percent |-> avg,
                   selection |-> best.sel] >>
          ELSE << >>

RankedBeforeAsc(c, d) == c.final_power < d.final_power
\* sorted(candidates, key=lambda x: x['final_power'], reverse=True)
RankedBefore(c, d) == c.final_power > d.final_power

RECURSIVE InsertCandidate(_, _, _)
InsertCandidate(sorted, c, i) ==
  IF i > Len(sorted) THEN Append(sorted, c)
  ELSE IF RankedBefore(c, sorted[i])
       THEN SubSeq(sorted, 1, i - 1) \o <<c>> \o SubSeq(sorted, i, Len(sorted))
       ELSE InsertCandidate(sorted, c, i + 1)

RECURSIVE SortCandidates(_, _, _)
SortCandidates(cands, i, acc) ==
  IF i > Len(cands) THEN acc
  ELSE SortCandidates(cands, i + 1, InsertCandidate(acc, cands[i], 1))

TopSliceShort(cands, n) == SubSeq(cands, 1, Min(n, Len(cands)) - 1)
\* candidates[:top_n_results]
TopSlice(cands, n) == SubSeq(cands, 1, Min(n, Len(cands)))

RECURSIVE TrialsFrom(_, _, _, _, _, _, _)
TrialsFrom(cands, dp_max, cap_racks, n3, rp, fb3, fb4) ==
  IF n3 > cap_racks THEN cands
  ELSE TrialsFrom(cands \o Trial(dp_max, cap_racks, n3, rp, fb3, fb4),
                  dp_max, cap_racks, n3 + 1, rp, fb3, fb4)

optimize_mixed_racks(grps, cap_racks, rp, fb3, fb4, top_n) ==
  LET dp_max == compute_dp_for_max_units(grps, MaxUnits(cap_racks))
      cands == TrialsFrom(<< >>, dp_max, cap_racks, 0, rp, fb3, fb4)
  IN TopSlice(SortCandidates(cands, 1, << >>), top_n)

\* --------------------------------------------------- assign_miners_to_racks
\* racks.append({'height': h, 'floors': [2] * h, 'miners': [], 'raw': 0.0})
NewRack(h) == [height |-> h, floors |-> [f \in 1..h |-> FloorSlots],
               miners |-> << >>, raw |-> 0]

BuildRacksShort(n3, n4) == [i \in 1..(n3 + n4) |-> NewRack(Floors3)]
BuildRacks(n3, n4) == [i \in 1..n3 |-> NewRack(Floors3)] \o [i \in 1..n4 |-> NewRack(Floors4)]

Instance(g) == [name |-> g.name, level |-> g.level, power |-> g.power,
                width |-> g.width, bonus_percent |-> g.bonus_percent]

\* for gi, cnt in selection.items(): for _ in range(cnt): instances.append(...)
RECURSIVE Expand(_, _, _)
Expand(selection, grps, g) ==
  IF g >= Len(grps) THEN << >>
  ELSE (IF g \in DOMAIN selection
        THEN [i \in 1..selection[g] |-> Instance(grps[g + 1])]
        ELSE << >>) \o Expand(selection, grps, g + 1)

\* instances.sort(key=lambda x: x['power'], reverse=True)
RECURSIVE InsertInstance(_, _, _)
InsertInstance(sorted, inst, i) ==
  IF i > Len(sorted) THEN Append(sorted, inst)
  ELSE IF inst.power > sorted[i].power
       THEN SubSeq(sorted, 1, i - 1) \o <<inst>> \o SubSeq(sorted, i, Len(sorted))
       ELSE InsertInstance(sorted, inst, i + 1)

RECURSIVE SortInstances(_, _, _)
SortInstances(insts, i, acc) ==
  IF i > Len(insts) THEN acc
  ELSE SortInstances(insts, i + 1, InsertInstance(acc, insts[i], 1))

FitsAnyFree(free, width) == free > 0
\* if free >= inst['width']
Fits(free, width) == free >= width

NoChoice == [choice |-> 0, floor |-> 0, after_raw |-> -1]

RECURSIVE ScanFloorsBalancing(_, _, _, _, _)
ScanFloorsBalancing(best, rs, ri, fi, inst) ==
  IF ri > Len(rs) THEN best
  ELSE IF fi > Len(rs[ri].floors) THEN ScanFloorsBalancing(best, rs, ri + 1, 1, inst)
  ELSE LET after_raw == rs[ri].raw + inst.power
           nb == IF Fits(rs[ri].floors[fi], inst.width)
                    /\ (best.choice = 0 \/ after_raw < best.after_raw)
                 THEN [choice |-> ri, floor |-> fi, after_raw |-> after_raw]
                 ELSE best
       IN ScanFloorsBalancing(nb, rs, ri, fi + 1, inst)

RECURSIVE ScanFloorsLastFound(_, _, _, _, _)
ScanFloorsLastFound(best, rs, ri, fi, inst) ==
  IF ri > Len(rs) THEN best
  ELSE IF fi > Len(rs[ri].floors) THEN ScanFloorsLastFound(best, rs, ri + 1, 1, inst)
  ELSE LET after_raw == rs[ri].raw + inst.power
           nb == IF Fits(rs[ri].floors[fi], inst.width) /\ after_raw >= best.after_raw
                 THEN [choice |-> ri, floor |-> fi, after_raw |-> after_raw]
                 ELSE best
       IN ScanFloorsLastFound(nb, rs, ri, fi + 1, inst)

\* for ri, rack in enumerate(racks): for fi, free in enumerate(rack['floors']): ...
RECURSIVE ScanFloors(_, _, _, _, _)
ScanFloors(best, rs, ri, fi, inst) ==
  IF ri > Len(rs) THEN best
  ELSE IF fi > Len(rs[ri].floors) THEN ScanFloors(best, rs, ri + 1, 1, inst)
  ELSE LET after_raw == rs[ri].raw + inst.power
           nb == IF Fits(rs[ri].floors[fi], inst.width) /\ after_raw > best.after_raw
                 THEN [choice |-> ri, floor |-> fi, after_raw |-> after_raw]
                 ELSE best
       IN ScanFloors(nb, rs, ri, fi + 1, inst)

PlaceOneForced(rs, inst) ==
  LET b == ScanFloors(NoChoice, rs, 1, 1, inst)
      c == IF b.choice # 0 THEN b ELSE [choice |-> 1, floor |-> 1, after_raw |-> 0]
  IN [rs EXCEPT ![c.choice].floors[c.floor] = @ - inst.width,
                ![c.choice].miners = Append(@, inst),
                ![c.choice].raw = @ + inst.power]

\* One iteration of "for inst in instances": place it or skip it.
PlaceOne(rs, inst) ==
  LET b == ScanFloors(NoChoice, rs, 1, 1, inst)
  IN IF b.choice # 0
     THEN [rs EXCEPT ![b.choice].floors[b.floor] = @ - inst.width,
                     ![b.choice].miners = Append(@, inst),
                     ![b.choice].raw = @ + inst.power]
     ELSE rs

RECURSIVE InsertRackAsc(_, _, _)
InsertRackAsc(sorted, r, i) ==
  IF i > Len(sorted) THEN Append(sorted, r)
  ELSE IF r.raw < sorted[i].raw
       THEN SubSeq(sorted, 1, i - 1) \o <<r>> \o SubSeq(sorted, i, Len(sorted))
       ELSE InsertRackAsc(sorted, r, i + 1)

\* racks = sorted(racks, key=lambda x: x['raw'], reverse=True)
RECURSIVE InsertRack(_, _, _)
InsertRack(sorted, r, i) ==
  IF i > Len(sorted) THEN Append(sorted, r)
  ELSE IF r.raw > sorted[i].raw
       THEN SubSeq(sorted, 1, i - 1) \o <<r>> \o SubSeq(sorted, i, Len(sorted))
       ELSE InsertRack(sorted, r, i + 1)

RECURSIVE SortRacks(_, _, _)
SortRacks(rs, i, acc) ==
  IF i > Len(rs) THEN acc
  ELSE SortRacks(rs, i + 1, InsertRack(acc, rs[i], 1))

\* -------------------------------------------------------- aggregate reporting
\* for w, st in dp.items(): for raw, mb, sel in st:
\*   if raw > max_raw: max_raw = raw;  if mb > max_bonus: max_bonus = mb
RECURSIVE MaxOverStates(_, _, _)
MaxOverStates(best, st, j) ==
  IF j > Len(st) THEN best
  ELSE MaxOverStates(<< IF st[j].raw > best[1] THEN st[j].raw ELSE best[1],
                        IF st[j].bonus > best[2] THEN st[j].bonus ELSE best[2] >>, st, j + 1)

RECURSIVE MaxOverEntries(_, _, _)
MaxOverEntries(best, table, i) ==
  IF i > Len(table) THEN best
  ELSE MaxOverEntries(MaxOverStates(best, table[i].st, 1), table, i + 1)

\* Returns <<max_raw, max_bonus>>, both starting from 0.
compute_max_raw_and_max_bonus(grps, cap_racks) ==
  MaxOverEntries(<<0, 0>>, compute_dp_for_max_units(grps, MaxUnits(cap_racks)), 1)

\* a // b of Python (b # 0): the quotient rounded down.
FloorDiv(a, b) == IF b > 0 THEN a \div b ELSE (-a) \div (-b)

\* counts_by_width[w] += count, over the groups of width w
RECURSIVE CountOfWidth(_, _, _)
CountOfWidth(grps, w, i) ==
  IF i > Len(grps) THEN 0
  ELSE (IF grps[i].width = w THEN grps[i].count ELSE 0) + CountOfWidth(grps, w, i + 1)

RECURSIVE FillWidestFirst(_, _, _, _)
FillWidestFirst(grps, widths, total, rem) ==
  IF widths = {} \/ rem <= 0 THEN total
  ELSE LET w == CHOOSE x \in widths : \A y \in widths : x >= y
           fit == Min(CountOfWidth(grps, w, 1), FloorDiv(rem, w))
       IN FillWidestFirst(grps, widths \ {w}, total + fit, rem - fit * w)

\* for w in sorted(counts_by_width.keys()): if rem <= 0: break; ...
RECURSIVE FillByWidth(_, _, _, _)
FillByWidth(grps, widths, total, rem) ==
  IF widths = {} \/ rem <= 0 THEN total
  ELSE LET w == CHOOSE x \in widths : \A y \in widths : x <= y
           fit == Min(CountOfWidth(grps, w, 1), FloorDiv(rem, w))
       IN FillByWidth(grps, widths \ {w}, total + fit, rem - fit * w)

compute_max_miners_count(grps, cap_racks) ==
  FillByWidth(grps, { grps[i].width : i \in 1..Len(grps) }, 0, MaxUnits(cap_racks))

\* ------------------------------------------------------------ state machine
VARIABLES
  miners,              \* the item feed collect_miners returned
  groups,              \* the list group_miners returned
  capacity_racks,      \* the rack budget R
  rack_percents,       \* rack_percents_dict: height 3 / 4 -> descending bonus list
  rack3_fallback,
  rack4_fallback,
  top_n_results,
  pc,                  \* where main() is
  gi,                  \* number of groups compute_dp_for_max_units has processed
  dp,                  \* the DP table (dp, then dp_max)
  r3,                  \* the next trial of optimize_mixed_racks
  candidates,          \* the candidates list of optimize_mixed_racks
  top_candidates,      \* what optimize_mixed_racks returned to main
  racks,               \* the racks of assign_miners_to_racks
  instances,           \* its expanded, sorted instances
  next_inst,           \* number of instances the placement loop has handled
  floor_items,         \* history: the widths placed on each (rack, floor), by creation index
  raw_max,             \* main: the global maxima it prints
  bonus_max,
  max_count

vars == <<miners, groups, capacity_racks, rack_percents, rack3_fallback, rack4_fallback,
          top_n_results, pc, gi, dp, r3, candidates, top_candidates, racks,
          instances, next_inst, floor_items, raw_max, bonus_max, max_count>>

report == <<raw_max, bonus_max, max_count>>

inputs == <<miners, groups, capacity_racks, rack_percents, rack3_fallback, rack4_fallback,
            top_n_results>>

\* What main() has not computed yet.
Blank ==
  /\ groups = << >>
  /\ pc = "main"
  /\ gi = 0
  /\ dp = DPInit
  /\ r3 = 0
  /\ candidates = << >>
  /\ top_candidates = << >>
  /\ racks = << >>
  /\ instances = << >>
  /\ next_inst = 0
  /\ floor_items = << >>
  /\ raw_max = 0
  /\ bonus_max = 0
  /\ max_count = 0

Init ==
  /\ miners \in { FeedOf(gl) : gl \in GroupLists }
  /\ capacity_racks \in 0..MaxRacks
  /\ rack_percents \in [{3, 4} -> RackPercentLists]
  /\ rack3_fallback \in FallbackValues
  /\ rack4_fallback \in FallbackValues
  /\ top_n_results \in 1..MaxTopN
  /\ Blank

\* main: if not miners: print('Aucun miner trouve ...'); return
MainNoMiners ==
  /\ pc = "main"
  /\ Len(miners) = 0
  /\ pc' = "no_miners"
  /\ UNCHANGED <<inputs, gi, dp, r3, candidates, top_candidates, racks, instances,
                 next_inst, floor_items, report>>

\* main: groups = group_miners(miners), then optimize_mixed_racks is entered.
GroupMiners ==
  /\ pc = "main"
  /\ Len(miners) # 0
  /\ groups' = group_miners(miners)
  /\ pc' = "dp"
  /\ UNCHANGED <<miners, capacity_racks, rack_percents, rack3_fallback, rack4_fallback,
                 top_n_results, gi, dp, r3, candidates, top_candidates, racks,
                 instances, next_inst, floor_items, report>>

\* compute_dp_for_max_units: one group processed and its buckets pruned.
ProcessGroup ==
  /\ pc = "dp"
  /\ gi < Len(groups)
  /\ dp' = DPGroupStep(dp, groups[gi + 1], gi, MaxUnits(capacity_racks))
  /\ gi' = gi + 1
  /\ UNCHANGED <<inputs, pc, r3, candidates, top_candidates, racks, instances,
                 next_inst, floor_items, report>>

\* compute_dp_for_max_units returns; optimize_mixed_racks starts its trials.
ReturnDP ==
  /\ pc = "dp"
  /\ gi = Len(groups)
  /\ pc' = "trials"
  /\ r3' = 0
  /\ candidates' = << >>
  /\ UNCHANGED <<inputs, gi, dp, top_candidates, racks, instances, next_inst, floor_items, report>>

RunTrialTruncating ==
  /\ pc = "trials"
  /\ r3 <= capacity_racks
  /\ candidates' = candidates \o Trial(dp, capacity_racks, r3, rack_percents,
                                       rack3_fallback, rack4_fallback)
  /\ r3' = r3 + 1
  /\ dp' = LET Within(e) == e.w <= CapUnits(r3, capacity_racks - r3)
           IN SelectSeq(dp, Within)
  /\ UNCHANGED <<inputs, pc, gi, top_candidates, racks, instances, next_inst,
                 floor_items, report>>

\* optimize_mixed_racks: one trial (r3, R - r3).
RunTrial ==
  /\ pc = "trials"
  /\ r3 <= capacity_racks
  /\ candidates' = candidates \o Trial(dp, capacity_racks, r3, rack_percents,
                                       rack3_fallback, rack4_fallback)
  /\ r3' = r3 + 1
  /\ UNCHANGED <<inputs, pc, gi, dp, top_candidates, racks, instances, next_inst,
                 floor_items, report>>

\* optimize_mixed_racks: sort the candidates and return the first top_n_results.
RankCandidates ==
  /\ pc = "trials"
  /\ r3 > capacity_racks
  /\ candidates' = SortCandidates(candidates, 1, << >>)
  /\ top_candidates' = TopSlice(candidates', top_n_results)
  /\ pc' = "ranked"
  /\ UNCHANGED <<inputs, gi, dp, r3, racks, instances, next_inst, floor_items, report>>

\* main: if not top_candidates: print('Aucun agencement trouve.')
NoLayout ==
  /\ pc = "ranked"
  /\ Len(top_candidates) = 0
  /\ pc' = "done"
  /\ UNCHANGED <<inputs, gi, dp, r3, candidates, top_candidates, racks, instances,
                 next_inst, floor_items, report>>

\* main: with a best candidate, the global maxima are computed and printed.
Report ==
  /\ pc = "ranked"
  /\ Len(top_candidates) > 0
  /\ raw_max' = compute_max_raw_and_max_bonus(groups, capacity_racks)[1]
  /\ bonus_max' = compute_max_raw_and_max_bonus(groups, capacity_racks)[2]
  /\ max_count' = compute_max_miners_count(groups, capacity_racks)
  /\ pc' = "report"
  /\ UNCHANGED <<inputs, gi, dp, r3, candidates, top_candidates, racks, instances,
                 next_inst, floor_items>>

\* assign_miners_to_racks for best = top_candidates[0]: racks built, selection
\* expanded and sorted.
StartAssign ==
  /\ pc = "report"
  /\ LET best == top_candidates[1]
     IN /\ racks' = BuildRacks(best.r3, best.r4)
        /\ instances' = SortInstances(Expand(best.selection, groups, 0), 1, << >>)
        /\ floor_items' = [ri \in 1..(best.r3 + best.r4) |->
                             [fi \in 1..(IF ri <= best.r3 THEN Floors3 ELSE Floors4) |-> << >>]]
  /\ next_inst' = 0
  /\ pc' = "place"
  /\ UNCHANGED <<inputs, gi, dp, r3, candidates, top_candidates, report>>

\* assign_miners_to_racks: one instance placed or skipped.
PlaceInstance ==
  /\ pc = "place"
  /\ next_inst < Len(instances)
  /\ LET inst == instances[next_inst + 1]
         b == ScanFloors(NoChoice, racks, 1, 1, inst)
     IN /\ racks' = PlaceOne(racks, inst)
        /\ floor_items' = IF b.choice # 0
                          THEN [floor_items EXCEPT ![b.choice][b.floor] = Append(@, inst.width)]
                          ELSE floor_items
  /\ next_inst' = next_inst + 1
  /\ UNCHANGED <<inputs, pc, gi, dp, r3, candidates, top_candidates, instances, report>>

\* assign_miners_to_racks: miners_count set, racks sorted by raw and returned.
FinishAssign ==
  /\ pc = "place"
  /\ next_inst = Len(instances)
  /\ racks' = SortRacks([i \in 1..Len(racks) |->
                           [height |-> racks[i].height, floors |-> racks[i].floors,
                            miners |-> racks[i].miners, raw |-> racks[i].raw,
                            miners_count |-> Len(racks[i].miners)]], 1, << >>)
  /\ pc' = "done"
  /\ UNCHANGED <<inputs, gi, dp, r3, candidates, top_candidates, instances, next_inst,
                 floor_items, report>>

Next ==
  \/ MainNoMiners
  \/ GroupMiners
  \/ ProcessGroup
  \/ ReturnDP
  \/ RunTrial
  \/ RankCandidates
  \/ NoLayout
  \/ Report
  \/ StartAssign
  \/ PlaceInstance
  \/ FinishAssign

Spec == Init /\ [][Next]_vars

\* Feeds in any order, items sharing an identity included.
FeedsUpTo(types, n) == UNION { [1..k -> types] : k \in 0..n }

InitFeeds ==
  /\ miners \in FeedsUpTo(MinerTypes \cup SharedIdentityTypes, MaxMiners)
  /\ capacity_racks \in 0..1
  /\ rack_percents = [h \in {3, 4} |-> << >>]
  /\ rack3_fallback = 0
  /\ rack4_fallback = 0
  /\ top_n_results = 1
  /\ Blank

SpecFeeds == InitFeeds /\ [][Next]_vars

\* Input the contract forbids: a malformed record in the feed or a negative budget.
Malformed ==
  \/ capacity_racks < 0
  \/ \E i \in 1..Len(miners) : miners[i].power < 0 \/ miners[i].width <= 0

InitMalformed ==
  /\ miners \in FeedsUpTo(MalformedTypes \cup { t \in MinerTypes : t.name \in {"A", "B"} },
                          MaxMiners)
  /\ capacity_racks \in -1..1
  /\ rack_percents = [h \in {3, 4} |-> << >>]
  /\ rack3_fallback = 0
  /\ rack4_fallback \in FallbackValues
  /\ top_n_results = 1
  /\ Blank
  /\ Malformed

SpecMalformed == InitMalformed /\ [][Next]_vars

\* Feeds of items of width 1 and 2, up to MaxPlaceCount copies of a kind.
InitPlacement ==
  /\ miners \in { FeedOf(gl) : gl \in PlacementGroupLists }
  /\ capacity_racks \in 0..MaxRacks
  /\ rack_percents = [h \in {3, 4} |-> << >>]
  /\ rack3_fallback \in FallbackValues
  /\ rack4_fallback = 0
  /\ top_n_results = 1
  /\ Blank

SpecPlacement == InitPlacement /\ [][Next]_vars

\* --------------------------------------------------------------- references
\* Re-summing a selection over the groups (the data model's SelectionState).
RECURSIVE SelWidth(_, _, _)
SelWidth(sel, grps, g) ==
  IF g >= Len(grps) THEN 0
  ELSE (IF g \in DOMAIN sel THEN sel[g] * grps[g + 1].width ELSE 0) + SelWidth(sel, grps, g + 1)

RECURSIVE SelRaw(_, _, _)
SelRaw(sel, grps, g) ==
  IF g >= Len(grps) THEN 0
  ELSE (IF g \in DOMAIN sel THEN sel[g] * grps[g + 1].power ELSE 0) + SelRaw(sel, grps, g + 1)

RECURSIVE SelBonusOnce(_, _, _)
SelBonusOnce(sel, grps, g) ==
  IF g >= Len(grps) THEN 0
  ELSE (IF g \in DOMAIN sel /\ sel[g] >= 1 THEN grps[g + 1].bonus_percent ELSE 0)
       + SelBonusOnce(sel, grps, g + 1)

\* Every choice vector c with 0 <= c[g] <= count[g] over the first n groups.
ChoiceVectors(grps, n) ==
  { c \in [0..(n - 1) -> 0..(MaxCount + MaxPlaceCount)] :
      \A g \in 0..(n - 1) : c[g] <= grps[g + 1].count }

\* Brute-force reference: the best final power over all choice vectors of width <= cap.
BruteFinals(grps, cap_units, avg) ==
  { Final(SelRaw(c, grps, 0), SelBonusOnce(c, grps, 0), avg) :
      c \in { d \in ChoiceVectors(grps, Len(grps)) : SelWidth(d, grps, 0) <= cap_units } }

SetMax(S) == CHOOSE x \in S : \A y \in S : y <= x

AfterRanking == pc \in {"ranked", "report", "place", "done"}

\* ------------------------------------------------------------------- claims
ScenarioInputs ==
  /\ groups = << [name |-> "A", level |-> 1, power |-> 100, width |-> 1,
                  bonus_percent |-> 500, count |-> 3],
                 [name |-> "B", level |-> 1, power |-> 50, width |-> 2,
                  bonus_percent |-> 0, count |-> 2] >>
  /\ capacity_racks = 1
  /\ rack_percents = [h \in {3, 4} |-> << >>]
  /\ rack3_fallback = 0
  /\ rack4_fallback = 300

\* C1: in the spec's scenario (rack budget 1, no rack-bonus inventory, 4-floor
\* fallback 300, 3-floor fallback 0, A = 100/1/500 x3, B = 50/2/0 x2) the top
\* candidate has r3 = 0, r4 = 1, selection {A: 3, B: 2}, used width 7,
\* raw_power 400, bonus_total 500 and final_power 432.
C1_ScenarioTopCandidate ==
  (ScenarioInputs /\ AfterRanking) =>
    /\ Len(top_candidates) >= 1
    /\ top_candidates[1].r3 = 0
    /\ top_candidates[1].r4 = 1
    /\ top_candidates[1].selection = [g \in {0, 1} |-> IF g = 0 THEN 3 ELSE 2]
    /\ top_candidates[1].used_units = 7
    /\ top_candidates[1].raw_power = 400
    /\ top_candidates[1].miner_bonus_percent = 500
    /\ top_candidates[1].final_power = 432 * PercentScale

C1_Witness == ScenarioInputs /\ pc = "ranked" /\ Len(top_candidates) >= 1

\* C2: for every item feed of the input contract and every trial (r3, r4), the
\* state kept for the trial has final_power equal to the maximum of
\* raw * (1 + (bonus + avg_rack_bonus)/10000) over all choice vectors that fit
\* the trial's capacity.
C2_SelectionExact ==
  \A i \in 1..Len(candidates) :
    candidates[i].final_power =
      SetMax(BruteFinals(groups, CapUnits(candidates[i].r3, candidates[i].r4),
                         candidates[i].avg_rack_percent))

\* C3: after every group-processing step, every state stored under width w
\* re-sums from its selection: w is the selection's width, raw its power and
\* bonus the sum of the bonuses of the groups chosen at least once.
C3_StatesResum ==
  \A i \in 1..Len(dp) : \A j \in 1..Len(dp[i].st) :
    /\ dp[i].w = SelWidth(dp[i].st[j].sel, groups, 0)
    /\ dp[i].st[j].raw = SelRaw(dp[i].st[j].sel, groups, 0)
    /\ dp[i].st[j].bonus = SelBonusOnce(dp[i].st[j].sel, groups, 0)

C3_Witness ==
  /\ pc = "dp"
  /\ gi = 2
  /\ \E i \in 1..Len(dp) : \E j \in 1..Len(dp[i].st) :
       /\ DOMAIN dp[i].st[j].sel = {0, 1}
       /\ dp[i].st[j].sel[0] >= 2
       /\ groups[1].bonus_percent > 0

\* C4: no two states retained under one width are dominance-comparable
\* (s.raw <= t.raw and s.bonus <= t.bonus for s # t), after every group.
C4_NoComparableStates ==
  \A i \in 1..Len(dp) : \A j, k \in 1..Len(dp[i].st) :
    j # k => ~(dp[i].st[j].raw <= dp[i].st[k].raw /\ dp[i].st[j].bonus <= dp[i].st[k].bonus)

\* A width whose frontier keeps two states and has lost at least one to pruning.
C4_Witness ==
  /\ gi = Len(groups)
  /\ \E i \in 1..Len(dp) :
       /\ Len(dp[i].st) >= 2
       /\ Cardinality({ c \in ChoiceVectors(groups, Len(groups)) :
                          SelWidth(c, groups, 0) = dp[i].w }) > Len(dp[i].st)

\* C5: for every R >= 1 the best final_power returned with rack budget R + 1
\* is at least the best final_power returned with rack budget R.
C5_BudgetMonotone ==
  (pc = "ranked" /\ capacity_racks >= 1 /\ Len(top_candidates) >= 1) =>
    LET more == optimize_mixed_racks(groups, capacity_racks + 1, rack_percents,
                                     rack3_fallback, rack4_fallback, top_n_results)
    IN Len(more) >= 1 /\ more[1].final_power >= top_candidates[1].final_power

\* C7: at every step of assign_miners_to_racks, every rack has as many floors
\* as its declared height (3 or 4, fixed by its creation position), every
\* floor's remaining capacity is in 0..2, and the widths placed on one floor
\* never sum above 2.
C7_FloorsWithinCapacity ==
  (pc \in {"place", "done"} /\ Len(top_candidates) >= 1) =>
    /\ Len(racks) = top_candidates[1].r3 + top_candidates[1].r4
    /\ Cardinality({ ri \in 1..Len(racks) : racks[ri].height = Floors3 }) = top_candidates[1].r3
    /\ \A ri \in 1..Len(racks) :
         /\ racks[ri].height \in {Floors3, Floors4}
         /\ Len(racks[ri].floors) = racks[ri].height
         /\ \A fi \in 1..Len(racks[ri].floors) : racks[ri].floors[fi] \in 0..FloorSlots
    /\ \A ri \in 1..Len(floor_items) : \A fi \in 1..Len(floor_items[ri]) :
         /\ SumSeq(floor_items[ri][fi]) <= FloorSlots
         /\ pc = "place" =>
              /\ Len(racks[ri].floors) = Len(floor_items[ri])
              /\ racks[ri].floors[fi] = FloorSlots - SumSeq(floor_items[ri][fi])

\* A floor filled by two instances, while an instance of width 2 is still to come.
C7_Witness ==
  /\ pc = "place"
  /\ \E ri \in 1..Len(racks) : \E fi \in 1..Len(racks[ri].floors) :
       racks[ri].floors[fi] = 0 /\ Len(floor_items[ri][fi]) = 2
  /\ \E k \in (next_inst + 1)..Len(instances) : instances[k].width = 2

C9_WithinMixCapacity ==
  \A i \in 1..Len(top_candidates) :
    /\ top_candidates[i].used_units = SelWidth(top_candidates[i].selection, groups, 0)
    /\ top_candidates[i].used_units <=
         top_candidates[i].r3 * 3 * 2 + top_candidates[i].r4 * 4 * 2

\* A returned candidate that fills its mix exactly while the table holds wider states.
C9_Witness ==
  /\ pc = "ranked"
  /\ \E i \in 1..Len(top_candidates) :
       /\ top_candidates[i].r3 >= 1
       /\ top_candidates[i].used_units =
            top_candidates[i].r3 * 3 * 2 + top_candidates[i].r4 * 4 * 2
       /\ \E j \in 1..Len(dp) :
            /\ dp[j].w > top_candidates[i].used_units
            /\ Len(dp[j].st) >= 1

\* The r3 + r4 values of a trial: the first entries of each list, a missing
\* entry replaced by the height's fallback.
ExpectedRackValues(n3, n4) ==
  [i \in 1..n3 |-> IF i <= Len(rack_percents[3]) THEN rack_percents[3][i] ELSE rack3_fallback]
  \o [i \in 1..n4 |-> IF i <= Len(rack_percents[4]) THEN rack_percents[4][i] ELSE rack4_fallback]

\* C10: for every trial the average rack bonus is the arithmetic mean of the
\* r3 + r4 values: avg_rack_percent * (r3 + r4) equals their sum.
C10_AverageIsMean ==
  \A i \in 1..Len(candidates) :
    candidates[i].avg_rack_percent * (candidates[i].r3 + candidates[i].r4)
      = SumSeq(ExpectedRackValues(candidates[i].r3, candidates[i].r4))

\* C10 as amended: the average rack bonus is the arithmetic mean of the
\* r3 + r4 values truncated toward zero to an integer: avg * (r3 + r4) lies
\* between 0 and the sum, less than r3 + r4 away from it.
C10_AverageIsTruncatedMean ==
  \A i \in 1..Len(candidates) :
    LET n == candidates[i].r3 + candidates[i].r4
        total == SumSeq(ExpectedRackValues(candidates[i].r3, candidates[i].r4))
        back == candidates[i].avg_rack_percent * n
    IN /\ n >= 1
       /\ total >= 0 => (0 <= back /\ back <= total /\ total - back < n)
       /\ total <= 0 => (total <= back /\ back <= 0 /\ back - total < n)

\* A trial whose values do not divide evenly, one of them a fallback.
C10_Witness ==
  \E i \in 1..Len(candidates) :
    /\ candidates[i].r3 > Len(rack_percents[3])
    /\ candidates[i].r4 >= 1
    /\ candidates[i].avg_rack_percent * (candidates[i].r3 + candidates[i].r4)
         < SumSeq(ExpectedRackValues(candidates[i].r3, candidates[i].r4))

\* C11: every returned candidate is self-consistent: final_power is
\* raw_power * (1 + (miner_bonus_percent + avg_rack_percent) / 10000) of its own
\* fields, and raw_power, miner_bonus_percent and used_units re-sum from its
\* reported selection.
C11_CandidateSelfConsistent ==
  \A i \in 1..Len(top_candidates) :
    /\ top_candidates[i].final_power =
         top_candidates[i].raw_power
           * (10000 + top_candidates[i].miner_bonus_percent + top_candidates[i].avg_rack_percent)
    /\ top_candidates[i].raw_power = SelRaw(top_candidates[i].selection, groups, 0)
    /\ top_candidates[i].miner_bonus_percent = SelBonusOnce(top_candidates[i].selection, groups, 0)
    /\ top_candidates[i].used_units = SelWidth(top_candidates[i].selection, groups, 0)

\* A returned candidate with a rack bonus, an item bonus and a repeated group.
C11_Witness ==
  /\ pc = "ranked"
  /\ \E i \in 1..Len(top_candidates) :
       /\ top_candidates[i].avg_rack_percent > 0
       /\ top_candidates[i].miner_bonus_percent > 0
       /\ \E g \in DOMAIN top_candidates[i].selection : top_candidates[i].selection[g] >= 2

\* C12: for R >= 1 and N >= 1 exactly min(N, R + 1) candidates are returned,
\* with pairwise distinct r3, in non-increasing final_power order, and no
\* omitted trial has a final_power strictly greater than a returned one.
C12_TopNReturned ==
  (AfterRanking /\ capacity_racks >= 1) =>
    /\ Len(top_candidates) = Min(top_n_results, capacity_racks + 1)
    /\ \A i, j \in 1..Len(top_candidates) :
         /\ i # j => top_candidates[i].r3 # top_candidates[j].r3
         /\ i < j => top_candidates[i].final_power >= top_candidates[j].final_power
    /\ \A n3 \in 0..capacity_racks :
         (\A i \in 1..Len(top_candidates) : top_candidates[i].r3 # n3) =>
           \A k \in 1..Len(candidates) : \A i \in 1..Len(top_candidates) :
             candidates[k].r3 = n3 => candidates[k].final_power <= top_candidates[i].final_power

\* Two of three trials returned, the omitted one strictly worse.
C12_Witness ==
  /\ pc = "ranked"
  /\ capacity_racks = 2
  /\ Len(top_candidates) = 2
  /\ top_candidates[1].final_power > top_candidates[2].final_power
  /\ candidates[3].final_power < top_candidates[2].final_power

\* C13: zero items supplied with rack budget R >= 1: the run ends with a
\* Layout whose winning candidate has final_power 0, raw_power 0, used width 0
\* and an empty selection, and whose rack list is R racks holding no items.
C13_ZeroItemsLayout ==
  (Len(miners) = 0 /\ capacity_racks >= 1 /\ pc \in {"done", "no_miners"}) =>
    /\ Len(top_candidates) >= 1
    /\ top_candidates[1].final_power = 0
    /\ top_candidates[1].raw_power = 0
    /\ top_candidates[1].used_units = 0
    /\ DOMAIN top_candidates[1].selection = {}
    /\ Len(racks) = capacity_racks
    /\ \A ri \in 1..Len(racks) : Len(racks[ri].miners) = 0

\* C14: with rack budget 0 and any item feed, optimize_mixed_racks returns no
\* candidate with positive final_power or a selected item, and
\* compute_max_raw_and_max_bonus and compute_max_miners_count return 0.
C14_ZeroBudgetZeroResult ==
  (capacity_racks = 0 /\ pc # "main") =>
    /\ \A i \in 1..Len(top_candidates) :
         top_candidates[i].final_power <= 0 /\ DOMAIN top_candidates[i].selection = {}
    /\ \A i \in 1..Len(candidates) :
         candidates[i].final_power <= 0 /\ DOMAIN candidates[i].selection = {}
    /\ compute_max_raw_and_max_bonus(groups, capacity_racks) = <<0, 0>>
    /\ compute_max_miners_count(groups, capacity_racks) = 0
    /\ pc = "done" => (racks = << >> /\ raw_max = 0 /\ bonus_max = 0 /\ max_count = 0)

\* A run over a non-empty inventory with budget 0 that has ended.
C14_Witness ==
  /\ capacity_racks = 0
  /\ pc = "done"
  /\ Len(groups) = 2
  /\ top_candidates = << >>

\* C15: an item record of width > 2 is rejected at input validation / grouping
\* time, before any DP state is built; it never enters a selection or the
\* instances the placement goes through.
C15_WideItemsRejected ==
  /\ (\E i \in 1..Len(miners) : miners[i].width > FloorSlots) => (gi = 0 /\ dp = DPInit)
  /\ \A i \in 1..Len(top_candidates) : \A g \in DOMAIN top_candidates[i].selection :
       groups[g + 1].width <= FloorSlots
  /\ \A k \in 1..Len(instances) : instances[k].width <= FloorSlots

\* C16: malformed input (negative power, width <= 0, negative rack budget)
\* stops processing before any DP state is created or extended; no candidate
\* and no layout come out of it.
C16_MalformedRejected ==
  Malformed =>
    /\ gi = 0
    /\ dp = DPInit
    /\ candidates = << >>
    /\ top_candidates = << >>
    /\ racks = << >>

RECURSIVE SumPower(_)
SumPower(ms) == IF Len(ms) = 0 THEN 0 ELSE ms[1].power + SumPower(Tail(ms))

CanFit(rs, inst) ==
  \E ri \in 1..Len(rs) : \E fi \in 1..Len(rs[ri].floors) : rs[ri].floors[fi] >= inst.width

\* C17: an instance with no (rack, floor) pair of remaining capacity >= its
\* width is skipped without failing: floors, miners and raw of every rack stay
\* as they are, the loop goes on to the next instance, and an instance with a
\* valid pair is placed; the placement only returns after the last instance.
C17_SkipAndGoOn ==
  [][ /\ (pc = "place" /\ next_inst < Len(instances)) =>
           /\ pc' = "place"
           /\ next_inst' = next_inst + 1
           /\ ~CanFit(racks, instances[next_inst + 1]) => racks' = racks
           /\ CanFit(racks, instances[next_inst + 1]) =>
                \E ri \in 1..Len(racks) :
                  /\ racks'[ri].miners = Append(racks[ri].miners, instances[next_inst + 1])
                  /\ \A rj \in 1..Len(racks) : rj # ri => racks'[rj] = racks[rj]
      /\ (pc = "place" /\ pc' = "done") => next_inst = Len(instances)
    ]_vars

\* An unplaceable instance was skipped and a later instance was placed.
C17_Witness ==
  /\ pc = "place"
  /\ \E k \in 1..next_inst : \E j \in 1..next_inst :
       /\ k < j
       /\ instances[k].width > FloorSlots
       /\ instances[j].width <= FloorSlots
  /\ SumSeq([ri \in 1..Len(racks) |-> Len(racks[ri].miners)])
       = Cardinality({ k \in 1..next_inst : instances[k].width <= FloorSlots })

\* C18: assign_miners_to_racks returns exactly r3 + r4 racks, r3 of height 3
\* and r4 of height 4, in non-increasing order of cumulative raw power; each
\* rack's raw is the sum of the powers of its placed instances and its item
\* count is the length of that list.
C18_RacksReturned ==
  (pc = "done" /\ Len(top_candidates) >= 1) =>
    /\ Len(racks) = top_candidates[1].r3 + top_candidates[1].r4
    /\ Cardinality({ ri \in 1..Len(racks) : racks[ri].height = 3 }) = top_candidates[1].r3
    /\ Cardinality({ ri \in 1..Len(racks) : racks[ri].height = 4 }) = top_candidates[1].r4
    /\ \A ri, rj \in 1..Len(racks) : ri < rj => racks[ri].raw >= racks[rj].raw
    /\ \A ri \in 1..Len(racks) :
         /\ racks[ri].raw = SumPower(racks[ri].miners)
         /\ racks[ri].miners_count = Len(racks[ri].miners)

\* Racks of both heights returned, with different loads.
C18_Witness ==
  /\ pc = "done"
  /\ Len(racks) = 2
  /\ racks[1].height # racks[2].height
  /\ racks[1].raw > racks[2].raw
  /\ racks[2].raw > 0
  /\ racks[1].miners_count >= 2

KeysOf(ms) == { GroupKey(ms[i]) : i \in 1..Len(ms) }

\* C19: group_miners returns exactly one group per distinct
\* (name, level, power, width, bonus_percent) tuple of the input, each with
\* count >= 1 equal to the number of input records with that tuple; the counts
\* sum to the number of records; an empty input gives an empty list.
C19_GroupingKeepsMultiplicity ==
  /\ pc \notin {"main", "no_miners"} =>
       /\ KeysOf(groups) = KeysOf(miners)
       /\ \A i, j \in 1..Len(groups) : i # j => GroupKey(groups[i]) # GroupKey(groups[j])
       /\ \A i \in 1..Len(groups) :
            /\ groups[i].count >= 1
            /\ groups[i].count =
                 Cardinality({ k \in 1..Len(miners) : GroupKey(miners[k]) = GroupKey(groups[i]) })
       /\ SumSeq([i \in 1..Len(groups) |-> groups[i].count]) = Len(miners)
  /\ Len(miners) = 0 => group_miners(miners) = << >>

\* A feed whose equal records are not adjacent has been grouped.
C19_Witness ==
  /\ pc = "dp"
  /\ Len(groups) >= 2
  /\ \E i, j, k \in 1..Len(miners) :
       /\ i < j /\ j < k
       /\ GroupKey(miners[i]) = GroupKey(miners[k])
       /\ GroupKey(miners[i]) # GroupKey(miners[j])

\* The bonus of a selection with each identity (name, level) counted once.
IdentitiesOf(sel, grps) == { <<grps[g + 1].name, grps[g + 1].level>> : g \in DOMAIN sel }

RECURSIVE IdentityBonus(_, _, _)
IdentityBonus(ids, sel, grps) ==
  IF ids = {} THEN 0
  ELSE LET id == CHOOSE x \in ids : TRUE
           g == CHOOSE h \in DOMAIN sel : <<grps[h + 1].name, grps[h + 1].level>> = id
       IN grps[g + 1].bonus_percent + IdentityBonus(ids \ {id}, sel, grps)

\* C20: in the bonus_total of every DP state and every returned candidate the
\* bonus of an item identity (name, level) is counted at most once, also when
\* records of one identity and bonus differ in power or width.
C20_IdentityBonusOnce ==
  /\ \A i \in 1..Len(dp) : \A j \in 1..Len(dp[i].st) :
       dp[i].st[j].bonus =
         IdentityBonus(IdentitiesOf(dp[i].st[j].sel, groups), dp[i].st[j].sel, groups)
  /\ \A i \in 1..Len(top_candidates) :
       top_candidates[i].miner_bonus_percent =
         IdentityBonus(IdentitiesOf(top_candidates[i].selection, groups),
                       top_candidates[i].selection, groups)

RECURSIVE SelCount(_, _, _)
SelCount(sel, grps, g) ==
  IF g >= Len(grps) THEN 0
  ELSE (IF g \in DOMAIN sel THEN sel[g] ELSE 0) + SelCount(sel, grps, g + 1)

\* The choice vectors over all groups whose total width is at most cap_units.
FittingVectors(grps, cap_units) ==
  { c \in ChoiceVectors(grps, Len(grps)) : SelWidth(c, grps, 0) <= cap_units }

Reported == pc \in {"report", "place", "done"} /\ Len(top_candidates) >= 1

\* C21: compute_max_miners_count returns the true maximum item count: the
\* maximum of sum c[g] over all choice vectors with 0 <= c[g] <= count[g] and
\* total width <= R * 4 * 2.
C21_MaxCountIsTrueMax ==
  LET brute == SetMax({ SelCount(c, groups, 0) : c \in FittingVectors(groups, capacity_racks * 4 * 2) })
  IN /\ (pc = "dp" /\ gi = 0) => compute_max_miners_count(groups, capacity_racks) = brute
     /\ pc = "report" => max_count = brute

\* The budget cuts the count, the wider group comes first in the list, and
\* filling with the wider group first would place fewer items.
C21_Witness ==
  /\ pc = "report"
  /\ capacity_racks = 1
  /\ Len(groups) = 2
  /\ groups[1].width = 2 /\ groups[1].count = 3
  /\ groups[2].width = 1 /\ groups[2].count = 4
  /\ max_count = 6

\* C22: compute_max_raw_and_max_bonus returns the true global maxima at maximum
\* capacity: max_raw is the maximum total power and max_bonus the maximum sum
\* of once-per-group bonuses over all choice vectors of total width <= R * 4 * 2,
\* for every item feed of the input contract.
C22_MaximaAreTrue ==
  Reported =>
    /\ raw_max = SetMax({ SelRaw(c, groups, 0) : c \in FittingVectors(groups, capacity_racks * 4 * 2) })
    /\ bonus_max = SetMax({ SelBonusOnce(c, groups, 0) :
                              c \in FittingVectors(groups, capacity_racks * 4 * 2) })

\* The (raw, bonus) pairs of all choice vectors of total width exactly w.
PairsOfWidth(grps, w) ==
  { <<SelRaw(c, grps, 0), SelBonusOnce(c, grps, 0)>> :
      c \in { d \in ChoiceVectors(grps, Len(grps)) : SelWidth(d, grps, 0) = w } }

ParetoFrontier(P) ==
  { p \in P : ~\E q \in P : q # p /\ q[1] >= p[1] /\ q[2] >= p[2] }

StoredPairs(table, w) ==
  UNION { { <<table[i].st[j].raw, table[i].st[j].bonus>> : j \in 1..Len(table[i].st) } :
            i \in { k \in 1..Len(table) : table[k].w = w } }

\* C23: for every ceiling U and every width w in 0..U, the (raw, bonus) pairs
\* stored under w by compute_dp_for_max_units are exactly the Pareto frontier
\* of the (raw, bonus) values of all choice vectors of total width w, and every
\* stored pair carries a choice vector that produces it.
C23_TableIsParetoFrontier ==
  (pc = "trials") =>
    /\ \A w \in 0..(capacity_racks * 4 * 2) :
         StoredPairs(dp, w) = ParetoFrontier(PairsOfWidth(groups, w))
    /\ \A i \in 1..Len(dp) : \A j \in 1..Len(dp[i].st) :
         /\ dp[i].w = SelWidth(dp[i].st[j].sel, groups, 0)
         /\ dp[i].st[j].raw = SelRaw(dp[i].st[j].sel, groups, 0)
         /\ dp[i].st[j].bonus = SelBonusOnce(dp[i].st[j].sel, groups, 0)

\* C24: no DP state is dropped except by dominance, for every feed of the
\* input contract: after every group the widths with a non-empty frontier are
\* exactly the widths in 0..U attainable as sum c[g] * width[g] over the groups
\* processed so far.
C24_OnlyDominanceDrops ==
  (pc \in {"dp", "trials"}) =>
    { dp[i].w : i \in { k \in 1..Len(dp) : Len(dp[k].st) > 0 } }
      = { w \in { SelWidth(c, groups, 0) : c \in ChoiceVectors(groups, gi) } :
            w <= capacity_racks * 4 * 2 }

\* The entries of a table whose width is at most u, in the table's order.
RestrictTable(table, u) ==
  LET AtMost(e) == e.w <= u
  IN SelectSeq(table, AtMost)

\* C25: truncation equals recomputation: the table built for the ceiling U,
\* restricted to widths <= U', is identical (widths, states and selections) to
\* the table built for U', for every U' <= U; and every trial evaluated on the
\* shared table gives the candidate a table built for the trial's own capacity
\* gives.
C25_TruncationEqualsRecomputation ==
  (pc = "trials") =>
    /\ r3 = 0 =>
         \A u \in 0..(capacity_racks * 4 * 2) :
           RestrictTable(dp, u) = compute_dp_for_max_units(groups, u)
    /\ \A i \in 1..Len(candidates) :
         <<candidates[i]>> =
           Trial(compute_dp_for_max_units(groups, CapUnits(candidates[i].r3, candidates[i].r4)),
                 capacity_racks, candidates[i].r3, rack_percents, rack3_fallback, rack4_fallback)

\* A trial of smaller capacity has run on a table that holds wider states.
C25_Witness ==
  /\ pc = "trials"
  /\ \E i \in 1..Len(candidates) :
       /\ candidates[i].r3 >= 1
       /\ candidates[i].used_units >= 1
       /\ \E j \in 1..Len(dp) :
            dp[j].w > CapUnits(candidates[i].r3, candidates[i].r4) /\ Len(dp[j].st) >= 1

PlacedCount(rs) == SumSeq([ri \in 1..Len(rs) |-> Len(rs[ri].miners)])

\* C26: for every winning candidate produced from items of width 1 or 2,
\* assign_miners_to_racks places every instance of the selection: no instance
\* is skipped, the number of placed instances is the sum of the selection's
\* counts and the racks' raw powers sum to the candidate's raw_power.
C26_NoOverflow ==
  /\ pc = "place" => PlacedCount(racks) = next_inst
  /\ (pc = "done" /\ Len(top_candidates) >= 1) =>
       /\ PlacedCount(racks) = SelCount(top_candidates[1].selection, groups, 0)
       /\ SumSeq([ri \in 1..Len(racks) |-> racks[ri].raw]) = top_candidates[1].raw_power

\* A mix filled to its last slot, narrow items placed before and after wide ones.
C26_Witness ==
  /\ pc = "done"
  /\ Len(racks) = 2
  /\ top_candidates[1].used_units = CapUnits(top_candidates[1].r3, top_candidates[1].r4)
  /\ \E i, j, k \in 1..Len(instances) :
       /\ i < j /\ j < k
       /\ instances[i].width = 1 /\ instances[j].width = 2 /\ instances[k].width = 1
       /\ instances[j].power > instances[k].power

RackFits(rs, ri, inst) == \E fi \in 1..Len(rs[ri].floors) : rs[ri].floors[fi] >= inst.width

\* C27: the expanded instances are processed in non-increasing power order,
\* and each placed instance goes to a rack whose cumulative raw power after the
\* placement is the maximum over all racks that have a floor with remaining
\* capacity >= the instance's width.
C27_PowerOrderAndClustering ==
  [][ (pc = "place" /\ next_inst' = next_inst + 1) =>
        /\ \A k \in 1..(Len(instances) - 1) : instances[k].power >= instances[k + 1].power
        /\ \A ri \in 1..Len(racks) :
             racks'[ri] # racks[ri] =>
               /\ RackFits(racks, ri, instances[next_inst + 1])
               /\ racks'[ri].raw = racks[ri].raw + instances[next_inst + 1].power
               /\ \A rj \in 1..Len(racks) :
                    RackFits(racks, rj, instances[next_inst + 1]) =>
                      racks'[ri].raw >= racks[rj].raw + instances[next_inst + 1].power
    ]_vars

\* Two instances went to the first rack while the second rack was empty and
\* had room for either.
C27_Witness ==
  /\ pc = "place"
  /\ next_inst = 2
  /\ Len(racks) = 2
  /\ Len(racks[1].miners) = 2
  /\ racks[1].raw > 0
  /\ Len(racks[2].miners) = 0
  /\ instances[1].power > instances[2].power

\* C28: no trial of optimize_mixed_racks changes the DP table, each trial's
\* candidate depends only on the table, r3 and the inputs (it is what the trial
\* alone gives, whatever ran before it), and assign_miners_to_racks leaves the
\* selection and the groups unchanged.
C28_TrialsAndPlacementOnlyRead ==
  [][ /\ pc = "trials" =>
           /\ dp' = dp
           /\ groups' = groups
           /\ \A i \in 1..Len(candidates) : candidates'[i] \in { candidates[k] : k \in 1..Len(candidates) }
           /\ pc' = "trials" =>
                candidates' = candidates \o Trial(dp, capacity_racks, r3, rack_percents,
                                                  rack3_fallback, rack4_fallback)
      /\ pc' = "trials" =>
           \A i \in 1..Len(candidates') :
             <<candidates'[i]>> = Trial(dp', capacity_racks, candidates'[i].r3, rack_percents,
                                        rack3_fallback, rack4_fallback)
      /\ pc \in {"report", "place"} =>
           /\ top_candidates' = top_candidates
           /\ groups' = groups
           /\ dp' = dp
    ]_vars

\* All trials of a budget of two racks have run and the placement has begun.
C28_Witness ==
  /\ pc = "place"
  /\ next_inst >= 2
  /\ capacity_racks = 2
  /\ Len(candidates) = 3
  /\ \E i \in 1..Len(dp) : dp[i].w > CapUnits(capacity_racks, 0) /\ Len(dp[i].st) >= 1

SelectionInInventory(sel) ==
  /\ DOMAIN sel \subseteq 0..(Len(groups) - 1)
  /\ \A g \in DOMAIN sel : 1 <= sel[g] /\ sel[g] <= groups[g + 1].count

\* C29: every selection recorded in a DP state or a returned candidate has
\* valid group indices as keys and counts with 1 <= sel[g] <= count[g] (a group
\* chosen zero times is absent), and every width key of the table is in 0..U.
C29_SelectionsWithinInventory ==
  /\ \A i \in 1..Len(dp) :
       /\ dp[i].w \in 0..MaxUnits(capacity_racks)
       /\ \A j \in 1..Len(dp[i].st) : SelectionInInventory(dp[i].st[j].sel)
  /\ \A i \in 1..Len(candidates) : SelectionInInventory(candidates[i].selection)
  /\ \A i \in 1..Len(top_candidates) : SelectionInInventory(top_candidates[i].selection)

\* A returned selection that takes all of one group and none of the other.
C29_Witness ==
  /\ pc = "ranked"
  /\ Len(groups) = 2
  /\ \E i \in 1..Len(top_candidates) :
       /\ DOMAIN top_candidates[i].selection = {1}
       /\ top_candidates[i].selection[1] = groups[2].count
       /\ groups[2].count >= 2

\* C30: when several (rack, floor) pairs give the same maximal rack raw power
\* after placement, the rack of lowest creation index is taken (3-floor racks
\* come before 4-floor racks) and, within it, the lowest floor with remaining
\* capacity >= the instance's width.
C30_FirstFoundTieBreak ==
  [][ (pc = "place" /\ next_inst' = next_inst + 1) =>
        /\ \A ri, rj \in 1..Len(racks) : ri < rj => racks[ri].height <= racks[rj].height
        /\ \A ri \in 1..Len(racks) : \A fi \in 1..Len(racks[ri].floors) :
             floor_items'[ri][fi] # floor_items[ri][fi] =>
               /\ racks'[ri].floors[fi] = racks[ri].floors[fi] - instances[next_inst + 1].width
               /\ \A rj \in 1..(ri - 1) :
                    RackFits(racks, rj, instances[next_inst + 1]) => racks[rj].raw < racks[ri].raw
               /\ \A fj \in 1..(fi - 1) : racks[ri].floors[fj] < instances[next_inst + 1].width
    ]_vars

\* The first of two empty racks of different heights took the first instance,
\* and a wide instance went past a half-filled floor.
C30_Witness ==
  /\ pc = "place"
  /\ Len(racks) = 2
  /\ racks[1].height = 3 /\ racks[2].height = 4
  /\ Len(racks[2].miners) = 0
  /\ floor_items[1][1] = <<1>>
  /\ floor_items[1][2] = <<2>>

====
